---- MODULE Spec2Model ----
(***************************************************************************)
(* The client-side synchronization engine of routelit: the component tree, *)
(* the action applicator, and the RouteLitManager with its fragment        *)
(* delegation, event dispatch and subscription plumbing.                   *)
(*                                                                         *)
(* Optional JavaScript values are modelled as sequences of length 0 or 1:  *)
(* None stands for undefined, Some(v) for the defined value v.             *)
(***************************************************************************)
EXTENDS Integers, Sequences, FiniteSets, TLC

VARIABLES
    componentsTree,   \* manager -> None | Some(list of nodes)   (this.componentsTree)
    lastURL,          \* manager -> URL                          (this.lastURL)
    listeners,        \* manager -> sequence of listener ids     (this.listeners)
    inflight,         \* requests sent and not yet answered, in send order
    location,         \* window.location.href
    ops,              \* the number of calls from outside so far
    docListeners,     \* the managers whose handleEvent listens on document, in order
    popListeners,     \* the managers whose handlePopState listens on window, in order
    react,            \* the state of the React components (App, Fragment, ReactRenderer)
    folded,           \* history: the batches that arrived, folded over the initial tree
    last,             \* history: the handler that ran in the last step
    calls,            \* history: the applyActions calls of the last step, in call order
    notified          \* history: the listener invocations of the last step, in call order

vars == <<componentsTree, lastURL, listeners, inflight, location, ops, docListeners,
          popListeners, react, folded, last, calls, notified>>

\* The listeners on document and window and the components.
domVars == <<docListeners, popListeners, react>>

(***************************************************************************)
(* Bounds of the model.                                                    *)
(***************************************************************************)
MaxOps == 3      \* calls from outside (handleEvent, subscribe, unsubscribe) in one run
MaxBatch == 2    \* actions in one batch given to applyActions directly

None == <<>>
Some(v) == <<v>>
Val(o) == o[1]

(***************************************************************************)
(* Component tree (types.d.ts RouteLitComponent).  A node without children *)
(* has leaf = TRUE and an empty placeholder list.  Prop values are maps.   *)
(***************************************************************************)
Scalar(v) == [s |-> v]
NoProps == [k \in {} |-> Scalar("")]

Leaf(k, n) == [key |-> k, name |-> n, props |-> NoProps, leaf |-> TRUE, children |-> <<>>]
Branch(k, n, ch) == [key |-> k, name |-> n, props |-> NoProps, leaf |-> FALSE, children |-> ch]

\* The tree of the initial payload: two buttons and a container that holds
\* fragment f1, which holds a text node and the nested fragment f2.
InitTree ==
    << Leaf("a", "button"),
       Leaf("b", "button"),
       Branch("c", "container",
           << Branch("f1", "fragment",
                 << Leaf("x", "text"),
                    Branch("f2", "fragment", << Leaf("y", "text") >>) >>) >>) >>

(***************************************************************************)
(* Actions and responses (types.d.ts Action, AddAction, RemoveAction,      *)
(* UpdateAction; ActionsResponse).  Every action record carries all the    *)
(* fields; the ones its type does not use hold a placeholder.              *)
(***************************************************************************)
NoElement == Leaf("", "")

AddAction(addr, el) == [type |-> "add", address |-> addr, element |-> el, props |-> NoProps]
RemoveAction(addr) == [type |-> "remove", address |-> addr, element |-> NoElement, props |-> NoProps]
UpdateAction(addr, p) == [type |-> "update", address |-> addr, element |-> NoElement, props |-> p]

ActionsResponse(acts, tgt) == [actions |-> acts, target |-> tgt]

(***************************************************************************)
(* The action applicator (core/actions).  A result is [ok, list]: ok tells *)
(* whether the address resolved, list is the draft after the call.         *)
(***************************************************************************)
\* Mutant of InsertAt: the node at the index is overwritten (list[i] = el).
InsertAt_overwrite(list, i, el) ==
    IF i <= Len(list) THEN [list EXCEPT ![i] = el] ELSE Append(list, el)

\* Mutant of RemoveAt: splice(i) without a count takes the rest of the list out.
RemoveAt_toEnd(list, i) == SubSeq(list, 1, i - 1)

InsertAt(list, i, el) == SubSeq(list, 1, i - 1) \o <<el>> \o SubSeq(list, i, Len(list))
RemoveAt(list, i) == SubSeq(list, 1, i - 1) \o SubSeq(list, i + 1, Len(list))

\* Mutant of MergeProps: a value present on both sides is merged key by key.
MergeProps_deep(old, new) ==
    [k \in (DOMAIN old) \cup (DOMAIN new) |->
        IF k \notin DOMAIN new THEN old[k]
        ELSE IF k \notin DOMAIN old THEN new[k]
        ELSE [j \in (DOMAIN old[k]) \cup (DOMAIN new[k]) |->
                IF j \in DOMAIN new[k] THEN new[k][j] ELSE old[k][j]]]

\* Shallow merge: the keys of the partial map override, the others are kept.
MergeProps(old, new) ==
    [k \in (DOMAIN old) \cup (DOMAIN new) |-> IF k \in DOMAIN new THEN new[k] ELSE old[k]]

\* Mutant of applyAtIndex: an update patches every node of the list.
applyAtIndex_updateAll(list, i, act) ==
    CASE act.type = "add" ->
            IF i <= Len(list) + 1
            THEN [ok |-> TRUE, list |-> InsertAt(list, i, act.element)]
            ELSE [ok |-> FALSE, list |-> list]
      [] act.type = "remove" ->
            IF i <= Len(list)
            THEN [ok |-> TRUE, list |-> RemoveAt(list, i)]
            ELSE [ok |-> FALSE, list |-> list]
      [] act.type = "update" ->
            IF i <= Len(list)
            THEN [ok |-> TRUE,
                  list |-> [j \in 1..Len(list) |->
                              [list[j] EXCEPT !.props = MergeProps(@, act.props)]]]
            ELSE [ok |-> FALSE, list |-> list]
      [] OTHER -> [ok |-> FALSE, list |-> list]

\* Mutant of applyAtIndex: a final index past the end is a silent no-op, as a
\* bare splice or a guarded assignment would make it.
applyAtIndex_silent(list, i, act) ==
    CASE act.type = "add" ->
            [ok |-> TRUE, list |-> IF i <= Len(list) + 1 THEN InsertAt(list, i, act.element)
                                   ELSE Append(list, act.element)]
      [] act.type = "remove" ->
            [ok |-> TRUE, list |-> IF i <= Len(list) THEN RemoveAt(list, i) ELSE list]
      [] act.type = "update" ->
            [ok |-> TRUE,
             list |-> IF i <= Len(list)
                      THEN [list EXCEPT ![i].props = MergeProps(@, act.props)]
                      ELSE list]
      [] OTHER -> [ok |-> FALSE, list |-> list]

\* The action applied to the list its address ends in; i is the 1-based final index.
applyAtIndex(list, i, act) ==
    CASE act.type = "add" ->
            IF i <= Len(list) + 1
            THEN [ok |-> TRUE, list |-> InsertAt(list, i, act.element)]
            ELSE [ok |-> FALSE, list |-> list]
      [] act.type = "remove" ->
            IF i <= Len(list)
            THEN [ok |-> TRUE, list |-> RemoveAt(list, i)]
            ELSE [ok |-> FALSE, list |-> list]
      [] act.type = "update" ->
            IF i <= Len(list)
            THEN [ok |-> TRUE,
                  list |-> [list EXCEPT ![i].props = MergeProps(@, act.props)]]
            ELSE [ok |-> FALSE, list |-> list]
      [] OTHER -> [ok |-> FALSE, list |-> list]

\* One action: every step but the last selects a node of the current list and
\* goes into its children; a step past the end of a list or into the absent
\* children of a leaf is an address-resolution error.
RECURSIVE applyAction(_, _, _)
applyAction(list, addr, act) ==
    IF addr = <<>> THEN [ok |-> FALSE, list |-> list]
    ELSE LET i == Head(addr) + 1 IN
         IF Len(addr) = 1 THEN applyAtIndex(list, i, act)
         ELSE IF i > Len(list) \/ list[i].leaf THEN [ok |-> FALSE, list |-> list]
         ELSE LET sub == applyAction(list[i].children, Tail(addr), act)
              IN  [ok |-> sub.ok, list |-> [list EXCEPT ![i].children = sub.list]]

\* actions.applyActions(draft, actions): the actions in order, each against the
\* draft the earlier ones left; it stops at the first that does not resolve.
RECURSIVE actions_applyActions(_, _)
actions_applyActions(draft, actions) ==
    IF actions = <<>> THEN [ok |-> TRUE, list |-> draft]
    ELSE LET r == applyAction(draft, Head(actions).address, Head(actions))
         IN  IF r.ok THEN actions_applyActions(r.list, Tail(actions)) ELSE r

\* actions.prependAddressToActions(resp, address): the same actions, each with
\* the address in front of its own.
prependAddressToActions(resp, addr) ==
    [resp EXCEPT !.actions =
        [i \in 1..Len(resp.actions) |-> [resp.actions[i] EXCEPT !.address = addr \o @]]]

(***************************************************************************)
(* The managers of the page: the root manager of the application and two   *)
(* fragment managers, f2 nested in f1.  A fragment's address is relative   *)
(* to its parent's tree.  The three fields are set by the constructor and  *)
(* never assigned again.  F3 is a fragment manager of a page that has two  *)
(* fragments side by side (SiblingTree).  D is a manager constructed with  *)
(* a fragmentId and an address and without a parentManager: the four props *)
(* of the constructor are optional one by one.                             *)
(***************************************************************************)
Managers == {"R", "F1", "F2"}

fragmentId(m) ==
    CASE m = "F1" -> Some("f1")
      [] m = "F2" -> Some("f2")
      [] m = "F3" -> Some("f3")
      [] m = "D" -> Some("d")
      [] OTHER -> None

parentManager(m) ==
    CASE m = "F1" -> Some("R")
      [] m = "F2" -> Some("F1")
      [] m = "F3" -> Some("R")
      [] OTHER -> None

address(m) ==
    CASE m = "F1" -> Some(<<2, 0>>)
      [] m = "F2" -> Some(<<1>>)
      [] m = "F3" -> Some(<<1>>)
      [] m = "D" -> Some(<<0>>)
      [] OTHER -> None

(***************************************************************************)
(* URLs are sequences of tokens; startsWith("http") looks at the first.    *)
(***************************************************************************)
Origin == <<"http", "://o">>
NoHref == <<>>
StartsWithHttp(href) == Len(href) > 0 /\ href[1] = "http"

\* window.location.href when the managers are constructed.
InitialLocation == Origin \o <<"/">>

\* Mutant of getLastURL: every manager answers with its own field.
getLastURL_own(m, lu) == lu[m]

\* getLastURL: the parent's answer if there is a parent, else the own field.
RECURSIVE getLastURL(_, _)
getLastURL(m, lu) ==
    IF parentManager(m) # None THEN getLastURL(Val(parentManager(m)), lu) ELSE lu[m]

(***************************************************************************)
(* Reading the tree.  A result is [st, val]: st is "ok" (val is the list), *)
(* "undefined" (the call returned undefined) or "throw".                   *)
(***************************************************************************)
Returned(list) == [st |-> "ok", val |-> list]
Undefined == [st |-> "undefined", val |-> <<>>]
Thrown == [st |-> "throw", val |-> <<>>]

\* The reduce of getAtAddress once it holds a node (acc = Some(node)) or
\* undefined (acc = None): the remaining steps index the node's children.
RECURSIVE reduceFromNode(_, _)
reduceFromNode(acc, addr) ==
    IF addr = <<>> THEN
        IF acc = None THEN Thrown                     \* "Component not found"
        ELSE IF Val(acc).leaf THEN Undefined          \* component.children is undefined
        ELSE Returned(Val(acc).children)
    ELSE IF acc = None \/ Val(acc).leaf THEN Thrown   \* TypeError: property of undefined
    ELSE LET ch == Val(acc).children
             i == Head(addr) + 1
         IN  reduceFromNode(IF i <= Len(ch) THEN Some(ch[i]) ELSE None, Tail(addr))

\* getAtAddress of manager m: the reduce starts from m's own componentsTree field.
getAtAddress(m, addr, ct) ==
    IF ct[m] = None THEN Thrown     \* undefined is no array and has no children
    ELSE LET list == Val(ct[m]) IN
         IF addr = <<>> THEN Returned(list)
         ELSE LET i == Head(addr) + 1
              IN  reduceFromNode(IF i <= Len(list) THEN Some(list[i]) ELSE None, Tail(addr))

getComponentsTree(m, ct) ==
    IF address(m) # None THEN
        IF parentManager(m) = None THEN Returned(<<>>)
        ELSE LET r == getAtAddress(Val(parentManager(m)), Val(address(m)), ct)
             IN  IF r.st = "undefined" THEN Returned(<<>>) ELSE r
    ELSE IF ct[m] = None THEN Undefined ELSE Returned(Val(ct[m]))

(***************************************************************************)
(* notifyListeners: the tree is resolved once, through getComponentsTree,  *)
(* and handed to every registered listener in registration order.  The     *)
(* result is [notified, threw].                                            *)
(***************************************************************************)
Notification(m, l, tree) == [mgr |-> m, listener |-> l, tree |-> tree]

notifyListeners(m, ct, ls) ==
    LET t == getComponentsTree(m, ct) IN
    IF t.st = "throw" THEN [notified |-> <<>>, threw |-> TRUE]
    ELSE [notified |-> [i \in 1..Len(ls[m]) |-> Notification(m, ls[m][i], t.val)],
          threw |-> FALSE]

(***************************************************************************)
(* applyActions of manager m.  The result is [ct, calls, notified, threw]: *)
(* the componentsTree fields afterwards, the applyActions calls made (this *)
(* one first), the listener invocations, and whether the call threw.       *)
(***************************************************************************)
Call(m, resp, sn) == [mgr |-> m, resp |-> resp, shouldNotify |-> sn]

\* const shouldNotifyParent = actionsResp.target === "app"
shouldNotifyParent(resp) == resp.target = "app"

\* Mutants of actionsWithAddress: the address is never put in front; it is
\* put in front also of an app-scoped response.
actionsWithAddress_noPrefix(m, resp) == resp

actionsWithAddress_alwaysPrefix(m, resp) == prependAddressToActions(resp, Val(address(m)))

\* The response a fragment hands to its parent.
actionsWithAddress(m, resp) ==
    IF shouldNotifyParent(resp) THEN resp
    ELSE prependAddressToActions(resp, Val(address(m)))

\* Whether a fragment notifies its own listeners after the parent returned.
fragmentNotifies(shouldNotify, resp) == shouldNotify /\ ~shouldNotifyParent(resp)

\* Mutant of produceTree: the batch is applied a second time.
produceTree_twice(tree, actions) ==
    LET r == actions_applyActions(tree, actions \o actions)
    IN  [ok |-> r.ok, tree |-> IF r.ok THEN r.list ELSE tree]

\* Mutant of produceTree: the recipe walks the actions from the last to the first.
produceTree_reversed(tree, actions) ==
    LET n == Len(actions)
        r == actions_applyActions(tree, [i \in 1..n |-> actions[n + 1 - i]])
    IN  [ok |-> r.ok, tree |-> IF r.ok THEN r.list ELSE tree]

\* Mutant of produceTree: the tree is patched in place, so the actions applied
\* before a failure stay.
produceTree_inPlace(tree, actions) ==
    LET r == actions_applyActions(tree, actions) IN [ok |-> r.ok, tree |-> r.list]

\* produce(this.componentsTree, draft => applyActions(draft, actions)) and the
\* assignment of its result: [ok, tree]; a recipe that throws commits nothing.
produceTree(tree, actions) ==
    LET r == actions_applyActions(tree, actions)
    IN  [ok |-> r.ok, tree |-> IF r.ok THEN r.list ELSE tree]

\* Mutants of rootNotifies: the shouldNotify argument is ignored.
rootNotifies_always(shouldNotify) == TRUE

rootNotifies_never(shouldNotify) == FALSE

\* Whether the manager that owns the tree notifies after the assignment.
rootNotifies(shouldNotify) == shouldNotify

RECURSIVE applyActions(_, _, _, _, _)
applyActions(m, resp, shouldNotify, ct, ls) ==
    IF fragmentId(m) # None THEN
        LET sub == IF parentManager(m) = None
                   THEN [ct |-> ct, calls |-> <<>>, notified |-> <<>>, threw |-> FALSE]
                   ELSE applyActions(Val(parentManager(m)), actionsWithAddress(m, resp),
                                     shouldNotifyParent(resp), ct, ls)
            own == IF ~sub.threw /\ fragmentNotifies(shouldNotify, resp)
                   THEN notifyListeners(m, sub.ct, ls)
                   ELSE [notified |-> <<>>, threw |-> sub.threw]
        IN  [ct |-> sub.ct,
             calls |-> <<Call(m, resp, shouldNotify)>> \o sub.calls,
             notified |-> sub.notified \o own.notified,
             threw |-> own.threw]
    ELSE
        LET p == produceTree(Val(ct[m]), resp.actions)
            ct2 == [ct EXCEPT ![m] = Some(p.tree)]
            own == IF p.ok /\ rootNotifies(shouldNotify)
                   THEN notifyListeners(m, ct2, ls)
                   ELSE [notified |-> <<>>, threw |-> ~p.ok]
        IN  [ct |-> ct2,
             calls |-> <<Call(m, resp, shouldNotify)>>,
             notified |-> own.notified,
             threw |-> own.threw]

(***************************************************************************)
(* UI events (types.d.ts UIEventPayload, NavigateEventPayload) and the     *)
(* requests of the wire client.                                            *)
(***************************************************************************)
ClickEvent(id) == [type |-> "click", id |-> id, href |-> NoHref, replace |-> FALSE]
NavigateEvent(href, rep) == [type |-> "navigate", id |-> "link", href |-> href, replace |-> rep]
NoEvent == [type |-> "", id |-> "", href |-> NoHref, replace |-> FALSE]

Events ==
    { ClickEvent("a"),
      NavigateEvent(<<"/a">>, FALSE) }

Request(m, e) == [mgr |-> m, ev |-> e]

\* The URL an href stands for: handleEvent's lastURL, and the browser's
\* resolution of a same-origin href given to pushState / replaceState.
AbsoluteURL(href) == IF StartsWithHttp(href) THEN href ELSE Origin \o href

(***************************************************************************)
(* handleEvent of manager m: [lastURL, inflight, sent, stopped].           *)
(***************************************************************************)
\* Mutant of leftToUpperManager: the test of fragmentId is inverted.
leftToUpperManager_inverted(m, e) == e.type = "navigate" /\ fragmentId(m) = None

\* A navigate event is left to an upper manager by a fragment.
leftToUpperManager(m, e) == e.type = "navigate" /\ fragmentId(m) # None

handleEvent(m, e, lu, inf) ==
    IF leftToUpperManager(m, e)
    THEN [lastURL |-> lu, inflight |-> inf, sent |-> FALSE, stopped |-> FALSE]
    ELSE [lastURL |-> IF e.type = "navigate"
                      THEN [lu EXCEPT ![m] = AbsoluteURL(e.href)]
                      ELSE lu,
          inflight |-> Append(inf, Request(m, e)),
          sent |-> TRUE,
          stopped |-> TRUE]

(***************************************************************************)
(* The responses the server may give.                                      *)
(***************************************************************************)
E == Leaf("e", "text")
Clicked == [label |-> Scalar("clicked")]
X1 == [x |-> Scalar("1")]

\* The batches of the responses: the end-to-end fixture, an add followed by a
\* remove, a remove that shifts the siblings, and a batch whose second action
\* resolves for some receivers only.
Batches ==
    { << UpdateAction(<<0>>, Clicked) >>,
      << AddAction(<<0>>, E), RemoveAction(<<1>>) >>,
      << RemoveAction(<<0>>) >>,
      << UpdateAction(<<0>>, X1), UpdateAction(<<1, 0>>, Clicked) >> }

Responses == { ActionsResponse(b, t) : b \in Batches, t \in {"self", "app"} }

(***************************************************************************)
(* The history of the last step: the handler that ran (op), on which       *)
(* manager and for which event; for an answered request whether an earlier   *)
(* request was still in flight (overtook), the response's target, whether  *)
(* the handler threw,                                                      *)
(* and the index of the first action that did not resolve in the tree      *)
(* owner's applyActions (failedAt, 0 if none); for handleEvent whether a   *)
(* request was sent and whether propagation was stopped; for a rejection   *)
(* whether it reached console.error; what was done to the history; and for *)
(* a step of the browser the events dispatched on document (dispatched).   *)
(***************************************************************************)
Last(op, m, e) ==
    [op |-> op, mgr |-> m, ev |-> e, target |-> "", overtook |-> FALSE, sent |-> FALSE,
     stopped |-> FALSE, threw |-> FALSE, failedAt |-> 0, logged |-> FALSE,
     history |-> "none", dispatched |-> <<>>]

RECURSIVE firstUnresolved(_, _, _)
firstUnresolved(draft, actions, k) ==
    IF actions = <<>> THEN 0
    ELSE LET r == applyAction(draft, Head(actions).address, Head(actions))
         IN  IF r.ok THEN firstUnresolved(r.list, Tail(actions), k + 1) ELSE k

\* The address of m's subtree in the application tree, through the parent chain.
RECURSIVE AbsoluteAddress(_)
AbsoluteAddress(m) ==
    IF parentManager(m) = None THEN <<>>
    ELSE AbsoluteAddress(Val(parentManager(m))) \o Val(address(m))

\* The batch of a response that manager m received, in root addresses.
ArrivedBatch(m, resp) ==
    IF resp.target = "app" THEN resp.actions
    ELSE [i \in 1..Len(resp.actions) |->
            [resp.actions[i] EXCEPT !.address = AbsoluteAddress(m) \o @]]

\* One step of the fold: a batch that resolves is applied, another leaves the tree.
FoldStep(tree, batch) ==
    LET r == actions_applyActions(tree, batch) IN IF r.ok THEN r.list ELSE tree

\* No component is mounted.
NoReact == [app |-> "unmounted"]

Init ==
    /\ componentsTree = [m \in Managers |-> IF m = "R" THEN Some(InitTree) ELSE None]
    /\ lastURL = [m \in Managers |-> InitialLocation]
    /\ listeners = [m \in Managers |-> <<>>]
    /\ inflight = <<>>
    /\ location = InitialLocation
    /\ ops = 0
    /\ docListeners = <<>>
    /\ popListeners = <<>>
    /\ react = NoReact
    /\ folded = InitTree
    /\ last = Last("init", "R", NoEvent)
    /\ calls = <<>>
    /\ notified = <<>>

\* A UI event reaches handleEvent of manager m.
HandleEvent(m, e) ==
    /\ ops < MaxOps
    /\ ops' = ops + 1
    /\ LET h == handleEvent(m, e, lastURL, inflight) IN
        /\ lastURL' = h.lastURL
        /\ inflight' = h.inflight
        /\ last' = [Last("handleEvent", m, e) EXCEPT !.sent = h.sent, !.stopped = h.stopped]
    /\ calls' = <<>>
    /\ notified' = <<>>
    /\ UNCHANGED <<componentsTree, listeners, location, folded, domVars>>

\* Mutant of historyUpdate: pushState whatever the event asked for.
historyUpdate_pushOnly(e) == IF e.type # "navigate" THEN "none" ELSE "push"

\* What handleNavigate does to the history once the request succeeded.
historyUpdate(e) ==
    IF e.type # "navigate" THEN "none"
    ELSE IF e.replace THEN "replace" ELSE "push"

\* The request at position i is answered with success: sendEvent resolves
\* (a navigate first updates the history) and applyActions runs.  console.error
\* is the rejection handler of sendEvent's promise only: a throw of
\* applyActions rejects the promise that then() returned, which has no
\* handler, so nothing is logged by the manager.
SendEventResolves(i, resp) ==
    LET q == inflight[i]
        r == applyActions(q.mgr, resp, TRUE, componentsTree, listeners)
        owner == r.calls[Len(r.calls)]
    IN  /\ inflight' = RemoveAt(inflight, i)
        /\ location' = IF q.ev.type = "navigate" THEN AbsoluteURL(q.ev.href) ELSE location
        /\ componentsTree' = r.ct
        /\ calls' = r.calls
        /\ notified' = r.notified
        /\ folded' = FoldStep(folded, ArrivedBatch(q.mgr, resp))
        /\ last' = [Last("response", q.mgr, q.ev) EXCEPT
                        !.target = resp.target,
                        !.overtook = i > 1,
                        !.threw = r.threw,
                        !.logged = FALSE,
                        !.failedAt = IF fragmentId(owner.mgr) = None
                                     THEN firstUnresolved(Val(componentsTree[owner.mgr]),
                                                          owner.resp.actions, 1)
                                     ELSE 0,
                        !.history = historyUpdate(q.ev)]
        /\ UNCHANGED <<lastURL, listeners, ops, domVars>>

\* Mutant of onRejected: the listeners are notified after a failure as well.
onRejected_notifies(m, ct, ls) ==
    [ct |-> ct, notified |-> notifyListeners(m, ct, ls).notified, logged |-> TRUE]

\* The rejection handler of handleEvent's promise, .then(applyActions, console.error):
\* [ct, notified, logged].
onRejected(m, ct, ls) == [ct |-> ct, notified |-> <<>>, logged |-> TRUE]

\* The request at position i fails (non-2xx or transport failure): sendEvent
\* rejects before it touches the history.
SendEventRejects(i) ==
    LET q == inflight[i]
        r == onRejected(q.mgr, componentsTree, listeners)
    IN  /\ inflight' = RemoveAt(inflight, i)
        /\ componentsTree' = r.ct
        /\ notified' = r.notified
        /\ last' = [Last("fail", q.mgr, q.ev) EXCEPT !.logged = r.logged]
        /\ calls' = <<>>
        /\ UNCHANGED <<lastURL, listeners, location, ops, folded, domVars>>

ListenerIds == {"l1", "l2"}

subscribe(m, l, ls) == [ls EXCEPT ![m] = Append(@, l)]

\* The function subscribe returned: filter((x) => x !== listener).
unsubscribe(m, l, ls) == [ls EXCEPT ![m] = SelectSeq(@, LAMBDA x : x # l)]

Subscribe(m, l) ==
    /\ ops < MaxOps
    /\ ops' = ops + 1
    /\ listeners' = subscribe(m, l, listeners)
    /\ last' = Last("subscribe", m, NoEvent)
    /\ calls' = <<>>
    /\ notified' = <<>>
    /\ UNCHANGED <<componentsTree, lastURL, inflight, location, folded, domVars>>

\* The function a subscribe(l) call on m returned is called.
Unsubscribe(m, l) ==
    /\ \E i \in 1..Len(listeners[m]) : listeners[m][i] = l
    /\ ops < MaxOps
    /\ ops' = ops + 1
    /\ listeners' = unsubscribe(m, l, listeners)
    /\ last' = Last("unsubscribe", m, NoEvent)
    /\ calls' = <<>>
    /\ notified' = <<>>
    /\ UNCHANGED <<componentsTree, lastURL, inflight, location, folded, domVars>>

Next ==
    \/ \E m \in Managers, e \in Events : HandleEvent(m, e)
    \/ \E i \in 1..Len(inflight), resp \in Responses : SendEventResolves(i, resp)
    \/ \E i \in 1..Len(inflight) : SendEventRejects(i)
    \/ \E m \in Managers, l \in ListenerIds : Subscribe(m, l)
    \/ \E m \in Managers, l \in ListenerIds : Unsubscribe(m, l)

Spec == Init /\ [][Next]_vars

(***************************************************************************)
(* The applicator on its own: applyActions of a manager that owns a tree   *)
(* is called once with a batch, as a fragment below it would call it.  The *)
(* tree and the batch are drawn from the sets below.                       *)
(***************************************************************************)
WithProps(node, p) == [node EXCEPT !.props = p]

OldProps == [label |-> Scalar("old"), style |-> [color |-> "red", size |-> "1"],
             title |-> Scalar("t")]
Partial == [label |-> Scalar("new"), style |-> [color |-> "blue"]]

TreeAB == << Leaf("A", "text"), Leaf("B", "text") >>

TreeProps ==
    << WithProps(Leaf("A", "text"), OldProps),
       WithProps(Branch("C", "container",
                     << Leaf("X", "text"), WithProps(Leaf("Y", "text"), OldProps) >>),
                 OldProps),
       Leaf("B", "text") >>

Trees == { <<>>, TreeAB, TreeProps, InitTree }

Addresses ==
    { <<0>>, <<1>>, <<2>>, <<3>>, <<1, 0>>, <<1, 1>>, <<1, 2>>, <<2, 0, 1>>, <<2, 0, 1, 0>> }

Actions ==
    { AddAction(a, E) : a \in Addresses } \cup { RemoveAction(a) : a \in Addresses }
        \cup { UpdateAction(a, Partial) : a \in Addresses }

BatchesUpTo(n) == UNION { [1..k -> Actions] : k \in 0..n }

ApplicatorInit ==
    /\ componentsTree \in { [m \in Managers |-> IF m = "R" THEN Some(t) ELSE None] : t \in Trees }
    /\ lastURL = [m \in Managers |-> InitialLocation]
    /\ listeners = [m \in Managers |-> IF m = "R" THEN <<"l1">> ELSE <<>>]
    /\ inflight = <<>>
    /\ location = InitialLocation
    /\ ops = 0
    /\ docListeners = <<>>
    /\ popListeners = <<>>
    /\ react = NoReact
    /\ folded = Val(componentsTree["R"])
    /\ last = Last("init", "R", NoEvent)
    /\ calls = <<>>
    /\ notified = <<>>

\* applyActions(resp, shouldNotify) is called on the manager that owns the tree;
\* a fragment passes shouldNotify = (target === "app").
ApplyActions(batch, tgt) ==
    LET resp == ActionsResponse(batch, tgt)
        r == applyActions("R", resp, shouldNotifyParent(resp), componentsTree, listeners)
    IN  /\ ops = 0
        /\ ops' = 1
        /\ componentsTree' = r.ct
        /\ calls' = r.calls
        /\ notified' = r.notified
        /\ folded' = FoldStep(folded, batch)
        /\ last' = [Last("applyActions", "R", NoEvent) EXCEPT
                        !.target = tgt,
                        !.threw = r.threw,
                        !.failedAt = firstUnresolved(Val(componentsTree["R"]), batch, 1)]
        /\ UNCHANGED <<lastURL, listeners, inflight, location, domVars>>

\* One call in a run: no batch is drawn once the call is made.
ApplicatorNext ==
    /\ ops = 0
    /\ \E batch \in BatchesUpTo(MaxBatch), tgt \in {"self", "app"} :
          ApplyActions(batch, tgt)

ApplicatorSpec == ApplicatorInit /\ [][ApplicatorNext]_vars

(***************************************************************************)
(* The listeners on document ("routelit:event") and on window              *)
(* ("popstate").  addEventListener does not add a listener that is already *)
(* registered; handleEvent and handlePopState are properties of the        *)
(* manager, the same functions in initialize and terminate.                *)
(***************************************************************************)
addEventListener(reg, m) ==
    IF \E i \in 1..Len(reg) : reg[i] = m THEN reg ELSE Append(reg, m)

removeEventListener(reg, m) == SelectSeq(reg, LAMBDA x : x # m)

initialize(m, doc, pop) ==
    [doc |-> addEventListener(doc, m), pop |-> addEventListener(pop, m)]

\* Mutant of terminate: the popstate listener is left on window.
terminate_keepsPopState(m, doc, pop) ==
    [doc |-> removeEventListener(doc, m), pop |-> pop]

terminate(m, doc, pop) ==
    [doc |-> removeEventListener(doc, m), pop |-> removeEventListener(pop, m)]

\* document.dispatchEvent(e): every listener on document is called, in the
\* order of registration; stopPropagation does not keep the event from the
\* other listeners of the same target.  [lastURL, inflight, sentBy, stoppedBy].
RECURSIVE dispatchEvent(_, _, _, _)
dispatchEvent(reg, e, lu, inf) ==
    IF reg = <<>>
    THEN [lastURL |-> lu, inflight |-> inf, sentBy |-> <<>>, stoppedBy |-> <<>>]
    ELSE LET h == handleEvent(Head(reg), e, lu, inf)
             rest == dispatchEvent(Tail(reg), e, h.lastURL, h.inflight)
         IN  [lastURL |-> rest.lastURL,
              inflight |-> rest.inflight,
              sentBy |-> (IF h.sent THEN << Head(reg) >> ELSE <<>>) \o rest.sentBy,
              stoppedBy |-> (IF h.stopped THEN << Head(reg) >> ELSE <<>>) \o rest.stoppedBy]

\* A dispatch on document: who dispatched the event (src, "dom" for a
\* component), the event, the lastURL fields when it was dispatched (before),
\* the managers whose handleEvent was called, and the ones that sent a
\* request and stopped the propagation.
Dispatch(src, e, reg, d, lu) ==
    [src |-> src, ev |-> e, before |-> lu, handledBy |-> reg, sentBy |-> d.sentBy,
     stoppedBy |-> d.stoppedBy]

\* The navigate event of handlePopState.
PopStateEvent(href, lu) ==
    [type |-> "navigate", id |-> "browser-navigation", href |-> href, replace |-> FALSE,
     lastURL |-> lu]

\* Mutant of handlePopState's event: the href is the URL recorded before.
popStateEventOf_lastURL(m, loc, lu) == PopStateEvent(lu[m], lu[m])

popStateEventOf(m, loc, lu) == PopStateEvent(loc, lu[m])

\* handlePopState of manager m: [lastURL, inflight, dispatched].
handlePopState(m, loc, doc, lu, inf) ==
    LET e == popStateEventOf(m, loc, lu)
        d == dispatchEvent(doc, e, lu, inf)
    IN  [lastURL |-> d.lastURL, inflight |-> d.inflight,
         dispatched |-> << Dispatch(m, e, doc, d, lu) >>]

\* The browser fires popstate: the listeners on window run in order.
RECURSIVE firePopState(_, _, _, _, _)
firePopState(reg, loc, doc, lu, inf) ==
    IF reg = <<>> THEN [lastURL |-> lu, inflight |-> inf, dispatched |-> <<>>]
    ELSE LET h == handlePopState(Head(reg), loc, doc, lu, inf)
             rest == firePopState(Tail(reg), loc, doc, h.lastURL, h.inflight)
         IN  [lastURL |-> rest.lastURL, inflight |-> rest.inflight,
              dispatched |-> h.dispatched \o rest.dispatched]

(***************************************************************************)
(* The page in the browser: the App component mounts and unmounts, the     *)
(* managers are initialized and terminated, components dispatch events on  *)
(* document, the user goes back and forward, and the server answers.       *)
(***************************************************************************)
NavEvents ==
    { ClickEvent("a"),
      NavigateEvent(<<"/a">>, FALSE),
      NavigateEvent(Origin \o <<"/b">>, TRUE) }

\* The URLs of the entries of the session history.
HistoryURLs == { InitialLocation, Origin \o <<"/a">> }

NavResponses == { ActionsResponse(<< UpdateAction(<<0>>, Clicked) >>, t) : t \in {"self", "app"} }

NavigationInit ==
    /\ componentsTree = [m \in Managers |-> IF m = "R" THEN Some(InitTree) ELSE None]
    /\ lastURL = [m \in Managers |-> InitialLocation]
    /\ listeners \in [Managers -> { <<>>, << "l1" >> }]
    /\ inflight = <<>>
    /\ location = InitialLocation
    /\ ops = 0
    /\ docListeners = <<>>
    /\ popListeners = <<>>
    /\ react = NoReact
    /\ folded = InitTree
    /\ last = Last("init", "R", NoEvent)
    /\ calls = <<>>
    /\ notified = <<>>

\* The step of a call from outside that applies no batch and sends nothing.
Lifecycle(op, m, reg) ==
    /\ ops < MaxOps
    /\ ops' = ops + 1
    /\ docListeners' = reg.doc
    /\ popListeners' = reg.pop
    /\ last' = Last(op, m, NoEvent)
    /\ calls' = <<>>
    /\ notified' = <<>>
    /\ UNCHANGED <<componentsTree, lastURL, listeners, inflight, location, folded>>

\* App's effect: manager.initialize() when the component mounts.
AppMount ==
    /\ react.app = "unmounted"
    /\ react' = [react EXCEPT !.app = "mounted"]
    /\ Lifecycle("mount", "R", initialize("R", docListeners, popListeners))

\* The cleanup of App's effect: manager.terminate() when it unmounts.
AppUnmount ==
    /\ react.app = "mounted"
    /\ react' = [react EXCEPT !.app = "unmounted"]
    /\ Lifecycle("unmount", "R", terminate("R", docListeners, popListeners))

Initialize(m) ==
    /\ Lifecycle("initialize", m, initialize(m, docListeners, popListeners))
    /\ UNCHANGED react

Terminate(m) ==
    /\ Lifecycle("terminate", m, terminate(m, docListeners, popListeners))
    /\ UNCHANGED react

\* A component dispatches a routelit event on document.
DocumentEvent(e) ==
    /\ ops < MaxOps
    /\ ops' = ops + 1
    /\ LET d == dispatchEvent(docListeners, e, lastURL, inflight) IN
        /\ lastURL' = d.lastURL
        /\ inflight' = d.inflight
        /\ last' = [Last("dispatch", "R", e) EXCEPT
                        !.dispatched = << Dispatch("dom", e, docListeners, d, lastURL) >>]
    /\ calls' = <<>>
    /\ notified' = <<>>
    /\ UNCHANGED <<componentsTree, listeners, location, folded, domVars>>

\* The user goes back or forward to the entry of url: the browser sets the
\* location and fires popstate.
PopState(url) ==
    /\ ops < MaxOps
    /\ ops' = ops + 1
    /\ location' = url
    /\ LET f == firePopState(popListeners, url, docListeners, lastURL, inflight) IN
        /\ lastURL' = f.lastURL
        /\ inflight' = f.inflight
        /\ last' = [Last("popstate", "R", NoEvent) EXCEPT !.dispatched = f.dispatched]
    /\ calls' = <<>>
    /\ notified' = <<>>
    /\ UNCHANGED <<componentsTree, listeners, folded, domVars>>

NavigationNext ==
    \/ AppMount
    \/ AppUnmount
    \/ \E m \in Managers : Initialize(m)
    \/ \E m \in Managers : Terminate(m)
    \/ \E e \in NavEvents : DocumentEvent(e)
    \/ \E url \in HistoryURLs : PopState(url)
    \/ \E i \in 1..Len(inflight), resp \in NavResponses : SendEventResolves(i, resp)
    \/ \E i \in 1..Len(inflight) : SendEventRejects(i)

NavigationSpec == NavigationInit /\ [][NavigationNext]_vars

(***************************************************************************)
(* The React components.  ReactRenderer renders the tree of its manager    *)
(* with the renderers of the registry (store: the registered names); a     *)
(* rendered element is Some([key, name, props, children]) with the         *)
(* rendered children, and None stands for null.                            *)
(***************************************************************************)
Element(c, ch) == [key |-> c.key, name |-> c.name, props |-> c.props, children |-> ch]

\* Mutant of renderComponentTree: a node without a renderer is rendered as well.
RECURSIVE renderComponentTree_all(_, _)
renderComponentTree_all(c, store) ==
    Some(Element(c, IF c.leaf THEN <<>>
                    ELSE [i \in 1..Len(c.children) |->
                            renderComponentTree_all(c.children[i], store)]))

RECURSIVE renderComponentTree(_, _)
renderComponentTree(c, store) ==
    IF c.name \notin store THEN None
    ELSE Some(Element(c, IF c.leaf THEN <<>>
                         ELSE [i \in 1..Len(c.children) |->
                                 renderComponentTree(c.children[i], store)]))

\* What ReactRenderer returns for the tree of manager m: None if reading the
\* tree throws, else the rendered root nodes.
ReactRenderer(m, ct, store) ==
    LET t == getComponentsTree(m, ct) IN
    IF t.st # "ok" THEN None
    ELSE Some([i \in 1..Len(t.val) |-> renderComponentTree(t.val[i], store)])

(***************************************************************************)
(* The Fragment component: useMemo keeps the manager while the             *)
(* dependencies [children, fragmentId] are the same values (Object.is; the *)
(* children array is compared by identity, modelled by a name).            *)
(***************************************************************************)
FragmentProps(id, ch, fid) == [id |-> id, children |-> ch, fragmentId |-> fid]

\* Mutant of fragmentDeps: the fragment id is left out of the dependencies.
fragmentDeps_childrenOnly(props) == << props.children >>

fragmentDeps(props) == << props.children, props.fragmentId >>

\* One render of Fragment: [deps, manager, created], manager being the
\* number of the constructor call that made the manager in use.
Fragment(props, f) ==
    IF f.deps = Some(fragmentDeps(props)) THEN f
    ELSE [deps |-> Some(fragmentDeps(props)), manager |-> f.created + 1,
          created |-> f.created + 1]

NotRendered == [deps |-> None, manager |-> 0, created |-> 0]

(***************************************************************************)
(* The dispatcher hooks: the detail of the event they give to handleEvent. *)
(* A detail is a map from field names to strings.                          *)
(***************************************************************************)
\* Mutant of detailWith: {...data, id, type}.
detailWith_dataFirst(id, type, data) ==
    [k \in {"id", "type"} \cup DOMAIN data |->
        IF k = "id" THEN id ELSE IF k = "type" THEN type ELSE data[k]]

\* { id, type, ...data }
detailWith(id, type, data) ==
    [k \in {"id", "type"} \cup DOMAIN data |->
        IF k \in DOMAIN data THEN data[k] ELSE IF k = "id" THEN id ELSE type]

\* { id, type, [attr]: value }
detailWithAttr(id, type, attr, value) ==
    [k \in {"id", "type", attr} |->
        IF k = attr THEN value ELSE IF k = "id" THEN id ELSE type]

(***************************************************************************)
(* The components at work: ReactRenderer renders the root's tree, Fragment *)
(* is rendered with props, and components call their dispatchers.          *)
(***************************************************************************)
Stores == { {}, {"text"}, {"button", "text", "fragment"}, {"button", "container", "text"},
            {"button", "container", "fragment", "text"} }

HookData == { [value |-> "v"], [id |-> "other"], [testData |-> "value", value |-> "v"] }

ReactInit ==
    /\ componentsTree \in { [m \in Managers |-> IF m = "R" THEN Some(t) ELSE None] :
                              t \in {TreeProps, InitTree} }
    /\ lastURL = [m \in Managers |-> InitialLocation]
    /\ listeners = [m \in Managers |-> <<>>]
    /\ inflight = <<>>
    /\ location = InitialLocation
    /\ ops = 0
    /\ docListeners = <<>>
    /\ popListeners = <<>>
    /\ react \in { [app |-> "mounted", store |-> st, rendered |-> None,
                     props |-> None, fragment |-> NotRendered] : st \in Stores }
    /\ folded = Val(componentsTree["R"])
    /\ last = Last("init", "R", NoEvent)
    /\ calls = <<>>
    /\ notified = <<>>

\* ReactRenderer of the root manager renders.
Render ==
    /\ ops < MaxOps
    /\ ops' = ops + 1
    /\ react' = [react EXCEPT !.rendered = ReactRenderer("R", componentsTree, react.store)]
    /\ last' = Last("render", "R", NoEvent)
    /\ calls' = <<>>
    /\ notified' = <<>>
    /\ UNCHANGED <<componentsTree, lastURL, listeners, inflight, location, folded,
                   docListeners, popListeners>>

\* Fragment is rendered with props.
FragmentRender(props) ==
    /\ ops < MaxOps
    /\ ops' = ops + 1
    /\ react' = [react EXCEPT !.props = Some(props), !.fragment = Fragment(props, @)]
    /\ last' = [Last("fragment", "R", NoEvent) EXCEPT
                    !.dispatched = << [src |-> "Fragment", props |-> props] >>]
    /\ calls' = <<>>
    /\ notified' = <<>>
    /\ UNCHANGED <<componentsTree, lastURL, listeners, inflight, location, folded,
                   docListeners, popListeners>>

\* A dispatcher of a component below manager m is called: handleEvent gets
\* the event with the detail.
Dispatcher(m, hook, detail) ==
    /\ ops < MaxOps
    /\ ops' = ops + 1
    /\ LET h == handleEvent(m, detail, lastURL, inflight) IN
        /\ lastURL' = h.lastURL
        /\ inflight' = h.inflight
        /\ last' = [Last("dispatcher", m, detail) EXCEPT
                        !.sent = h.sent, !.stopped = h.stopped,
                        !.dispatched = << hook >>]
    /\ calls' = <<>>
    /\ notified' = <<>>
    /\ UNCHANGED <<componentsTree, listeners, location, folded, domVars>>

\* The callback of useDispatcherWith(id, type) is called with data.
DispatcherWith(m, id, type, data) ==
    Dispatcher(m, [src |-> "useDispatcherWith", id |-> id, type |-> type, data |-> data],
               detailWith(id, type, data))

\* The callback of useDispatcherWithAttr(id, type, attr) is called with value.
DispatcherWithAttr(m, id, type, attr, value) ==
    Dispatcher(m, [src |-> "useDispatcherWithAttr", id |-> id, type |-> type,
                   attr |-> attr, value |-> value],
               detailWithAttr(id, type, attr, value))

ReactNext ==
    \/ Render
    \/ \E id \in {"k1", "k2"}, ch \in {"children1", "children2"}, fid \in {"f1", "g"} :
          FragmentRender(FragmentProps(id, ch, fid))
    \/ \E m \in {"R", "F1"}, data \in HookData : DispatcherWith(m, "a", "click", data)
    \/ \E m \in {"R", "F1"}, attr \in {"value", "id"} :
          DispatcherWithAttr(m, "a", "change", attr, "v")

ReactSpec == ReactInit /\ [][ReactNext]_vars

(***************************************************************************)
(* A page with two fragments side by side: f3 at [1] and f1 at [2,0] of    *)
(* the root's tree.  Both send events, and the responses arrive in any     *)
(* order.                                                                  *)
(***************************************************************************)
SiblingTree ==
    << Leaf("a", "button"),
       Branch("f3", "fragment", << Leaf("u", "text"), Leaf("v", "text") >>),
       Branch("c", "container",
           << Branch("f1", "fragment", << Leaf("x", "text"), Leaf("w", "text") >>) >>) >>

SiblingManagers == {"R", "F1", "F3"}

Tapped == [label |-> Scalar("tapped")]

SiblingBatches ==
    { << UpdateAction(<<0>>, Clicked) >>,
      << UpdateAction(<<0>>, Tapped) >>,
      << UpdateAction(<<1>>, X1), UpdateAction(<<0>>, X1) >>,
      << UpdateAction(<<0>>, X1), UpdateAction(<<2>>, Clicked) >>,
      << RemoveAction(<<0>>) >> }

SiblingResponses == { ActionsResponse(b, t) : b \in SiblingBatches, t \in {"self", "app"} }

SiblingInit ==
    /\ componentsTree = [m \in SiblingManagers |-> IF m = "R" THEN Some(SiblingTree) ELSE None]
    /\ lastURL = [m \in SiblingManagers |-> InitialLocation]
    /\ listeners = [m \in SiblingManagers |-> << "l1" >>]
    /\ inflight = <<>>
    /\ location = InitialLocation
    /\ ops = 0
    /\ docListeners = <<>>
    /\ popListeners = <<>>
    /\ react = NoReact
    /\ folded = SiblingTree
    /\ last = Last("init", "R", NoEvent)
    /\ calls = <<>>
    /\ notified = <<>>

SiblingNext ==
    \/ \E m \in SiblingManagers : HandleEvent(m, ClickEvent("a"))
    \/ \E i \in 1..Len(inflight), resp \in SiblingResponses : SendEventResolves(i, resp)
    \/ \E i \in 1..Len(inflight) : SendEventRejects(i)

SiblingSpec == SiblingInit /\ [][SiblingNext]_vars

(***************************************************************************)
(* The managers new RouteLitManager(props) can make: besides the root and  *)
(* the fragments of the page, manager D of the props {fragmentId: "d",     *)
(* address: [0]}, with or without a componentsTree of its own.             *)
(***************************************************************************)
Constructed == Managers \cup {"D"}

ConstructorInit ==
    /\ componentsTree \in { [m \in Constructed |->
                                IF m = "R" THEN Some(InitTree) ELSE IF m = "D" THEN t ELSE None] :
                            t \in {None, Some(TreeAB)} }
    /\ lastURL = [m \in Constructed |-> InitialLocation]
    /\ listeners \in { [m \in Constructed |-> IF m = "D" THEN l ELSE <<>>] :
                       l \in { <<>>, << "l1" >> } }
    /\ inflight = <<>>
    /\ location = InitialLocation
    /\ ops = 0
    /\ docListeners = <<>>
    /\ popListeners = <<>>
    /\ react = NoReact
    /\ folded = InitTree
    /\ last = Last("init", "R", NoEvent)
    /\ calls = <<>>
    /\ notified = <<>>

ConstructorNext ==
    \/ \E m \in Constructed, e \in Events : HandleEvent(m, e)
    \/ \E i \in 1..Len(inflight), resp \in Responses : SendEventResolves(i, resp)
    \/ \E i \in 1..Len(inflight) : SendEventRejects(i)

ConstructorSpec == ConstructorInit /\ [][ConstructorNext]_vars

(***************************************************************************)
(* Helpers of the properties.                                              *)
(***************************************************************************)
IsFragment(m) == fragmentId(m) # None
IsRoot(m) == fragmentId(m) = None
RootTree == Val(componentsTree["R"])

\* The invocations of m's listeners in the last step.
NotifiedOf(m) == SelectSeq(notified, LAMBDA n : n.mgr = m)

\* One invocation per registration of m, in registration order, with the tree.
OncePerListener(m, tree) ==
    [i \in 1..Len(listeners[m]) |-> Notification(m, listeners[m][i], tree)]

\* The children list at m's place in the application tree, resolved from the root.
SubtreeOfRoot(m, ct) ==
    LET r == getAtAddress("R", AbsoluteAddress(m), ct)
    IN  IF r.st = "undefined" THEN Returned(<<>>) ELSE r

\* The last step answered a request of fragment m whose parent owns the tree.
AnsweredFragmentOfRoot ==
    /\ last.op = "response"
    /\ IsFragment(last.mgr)
    /\ parentManager(last.mgr) # None
    /\ IsRoot(Val(parentManager(last.mgr)))

(***************************************************************************)
(* C1: a fragment at address P whose parent is the root manager hands a    *)
(* response with target "self" to the parent as the same actions, in the   *)
(* same order, with the same type and payload, each with address P \o a in *)
(* place of its address a.                                                 *)
(***************************************************************************)
C1_SelfResponseIsPrefixed ==
    (AnsweredFragmentOfRoot /\ last.target = "self") =>
        /\ Len(calls) = 2
        /\ calls[1].mgr = last.mgr
        /\ calls[2].mgr = Val(parentManager(last.mgr))
        /\ calls[2].resp.target = "self"
        /\ Len(calls[2].resp.actions) = Len(calls[1].resp.actions)
        /\ \A i \in 1..Len(calls[1].resp.actions) :
              LET a == calls[1].resp.actions[i]
                  b == calls[2].resp.actions[i]
              IN  /\ b.type = a.type
                  /\ b.element = a.element
                  /\ b.props = a.props
                  /\ b.address = Val(address(last.mgr)) \o a.address

\* The fragment at [2,0] received an update at [0]; the root was given it at [2,0,0].
C1_Witness ==
    /\ AnsweredFragmentOfRoot
    /\ last.mgr = "F1"
    /\ last.target = "self"
    /\ calls[1].resp.actions = << UpdateAction(<<0>>, Clicked) >>
    /\ calls[2].resp.actions = << UpdateAction(<<2, 0, 0>>, Clicked) >>
    /\ RootTree[3].children[1].children[1].props = Clicked

(***************************************************************************)
(* C2: a response with target "app" that a fragment at any depth receives  *)
(* reaches the root manager through the parent chain with every action     *)
(* unchanged, and the root applies the actions to the application tree.    *)
(***************************************************************************)
C2_AppResponseIsNotPrefixed ==
    [][ (last'.op = "response" /\ IsFragment(last'.mgr) /\ last'.target = "app") =>
            /\ calls'[Len(calls')].mgr = "R"
            /\ \A k \in 1..Len(calls') : calls'[k].resp = calls'[1].resp
            /\ componentsTree'["R"] = Some(FoldStep(RootTree, calls'[1].resp.actions))
      ]_vars

\* The nested fragment received an app-scoped update at [0]: button a of the
\* application tree has the label, the text in the fragment has not.
C2_Witness ==
    /\ last.op = "response"
    /\ last.mgr = "F2"
    /\ last.target = "app"
    /\ Len(calls) = 3
    /\ calls[3].resp.actions = << UpdateAction(<<0>>, Clicked) >>
    /\ RootTree[1].props = Clicked
    /\ RootTree[3].children[1].children[2].children[1].props = NoProps

(***************************************************************************)
(* C3: a wire call that fails changes the tree that getComponentsTree      *)
(* returns for no manager and invokes no listener; neither does the        *)
(* handleEvent call that started it.                                       *)
(***************************************************************************)
C3_FailureLeavesTree ==
    [][ (last'.op \in {"handleEvent", "fail"}) =>
            /\ \A m \in Managers :
                  getComponentsTree(m, componentsTree') = getComponentsTree(m, componentsTree)
            /\ componentsTree' = componentsTree
            /\ notified' = <<>>
      ]_vars

\* A request of fragment f1 failed while f1 and the root both had a listener.
C3_Witness ==
    /\ last.op = "fail"
    /\ last.mgr = "F1"
    /\ last.logged
    /\ listeners["F1"] # <<>>
    /\ listeners["R"] # <<>>

(***************************************************************************)
(* C4: when an action of a batch does not resolve in the root manager's    *)
(* applyActions, the tree stays the value it was before the batch and no   *)
(* listener is invoked.                                                    *)
(***************************************************************************)
C4_FailedBatchCommitsNothing ==
    [][ (last'.op = "response" /\ last'.failedAt > 0) =>
            /\ componentsTree' = componentsTree
            /\ notified' = <<>>
            /\ last'.threw
      ]_vars

\* The second action of a batch for the root did not resolve after the first
\* had, and the root had a listener.
C4_Witness ==
    /\ last.op = "response"
    /\ last.mgr = "R"
    /\ last.failedAt = 2
    /\ listeners["R"] # <<>>
    /\ RootTree = InitTree

(***************************************************************************)
(* C5: handleEvent of a fragment manager with a navigate event sends no    *)
(* request, changes no tree and no last-navigated URL, and does not stop   *)
(* the propagation of the event.                                           *)
(***************************************************************************)
C5_FragmentLeavesNavigate ==
    [][ (last'.op = "handleEvent" /\ IsFragment(last'.mgr) /\ last'.ev.type = "navigate") =>
            /\ inflight' = inflight
            /\ componentsTree' = componentsTree
            /\ lastURL' = lastURL
            /\ \A m \in Managers : getLastURL(m, lastURL') = getLastURL(m, lastURL)
            /\ location' = location
            /\ ~last'.sent
            /\ ~last'.stopped
      ]_vars

C5_Witness ==
    /\ last.op = "handleEvent"
    /\ last.mgr = "F2"
    /\ last.ev = NavigateEvent(<<"/a">>, FALSE)
    /\ inflight = <<>>

(***************************************************************************)
(* C6: for the root manager, a successful response to an event sent by     *)
(* handleEvent replaces the tree by the result of applying the response's  *)
(* actions and invokes every registered listener once, with that tree.     *)
(* On the initial tree, an update at [0] with {label: clicked} gives       *)
(* button a the props {label: clicked} and leaves the rest.                *)
(***************************************************************************)
C6_RootAppliesAndNotifiesOnce ==
    [][ (last'.op = "response" /\ last'.mgr = "R" /\ last'.failedAt = 0) =>
            LET acts == calls'[1].resp.actions
                res == actions_applyActions(RootTree, acts)
            IN  /\ res.ok
                /\ componentsTree'["R"] = Some(res.list)
                /\ notified' = OncePerListener("R", res.list)
                /\ (RootTree = InitTree /\ acts = << UpdateAction(<<0>>, Clicked) >>) =>
                      componentsTree'["R"] =
                          Some(<< [key |-> "a", name |-> "button", props |-> Clicked,
                                   leaf |-> TRUE, children |-> <<>>],
                                  InitTree[2], InitTree[3] >>)
      ]_vars

\* Two listeners of the root were each invoked once with the patched tree.
C6_Witness ==
    /\ last.op = "response"
    /\ last.mgr = "R"
    /\ last.ev = ClickEvent("a")
    /\ listeners["R"] = <<"l1", "l2">>
    /\ RootTree[1].props = Clicked
    /\ notified = << Notification("R", "l1", RootTree), Notification("R", "l2", RootTree) >>

(***************************************************************************)
(* C7: handleEvent sends its request whatever is in flight, and the tree   *)
(* of the root is the fold, in the order of arrival, of the batches of the *)
(* successful responses (a batch that does not resolve is not applied).    *)
(***************************************************************************)
C7_AppliedOnceInArrivalOrder ==
    /\ componentsTree["R"] = Some(folded)
    /\ (last.op = "handleEvent" /\ ~(IsFragment(last.mgr) /\ last.ev.type = "navigate")) =>
          /\ last.sent
          /\ inflight # <<>>
          /\ inflight[Len(inflight)] = Request(last.mgr, last.ev)

\* The request sent second was answered first and its batch changed the tree,
\* while the request sent first is still in flight.
C7_Witness ==
    /\ last.op = "response"
    /\ last.overtook
    /\ last.failedAt = 0
    /\ Len(inflight) = 1
    /\ RootTree # InitTree

(***************************************************************************)
(* C8: getComponentsTree of a fragment manager, also of one whose parent   *)
(* is a fragment, is the children list at its place in the current tree of *)
(* the root.                                                               *)
(***************************************************************************)
C8_FragmentReadsRootTree ==
    \A m \in Managers :
        IsFragment(m) => getComponentsTree(m, componentsTree) = SubtreeOfRoot(m, componentsTree)

(***************************************************************************)
(* C9: when a fragment manager receives a response whose batch is applied, *)
(* its listeners are invoked once each, with the patched subtree, if the   *)
(* target is "self", and not at all if the target is "app".                *)
(***************************************************************************)
C9_FragmentNotifiesOnSelf ==
    (last.op = "response" /\ IsFragment(last.mgr) /\ last.failedAt = 0) =>
        IF last.target = "self"
        THEN /\ SubtreeOfRoot(last.mgr, componentsTree).st = "ok"
             /\ NotifiedOf(last.mgr) =
                    OncePerListener(last.mgr, SubtreeOfRoot(last.mgr, componentsTree).val)
        ELSE NotifiedOf(last.mgr) = <<>>

(***************************************************************************)
(* C10, as claimed: the root manager invokes its listeners on every batch  *)
(* applied to its tree, also on one a fragment forwarded with target       *)
(* "self".                                                                 *)
(***************************************************************************)
C10_RootAlwaysNotifies ==
    (last.op = "response" /\ last.failedAt = 0) =>
        NotifiedOf("R") = OncePerListener("R", RootTree)

(***************************************************************************)
(* C10, amended: the root manager invokes its listeners, once each, on a   *)
(* batch applied to its tree that answers its own event or that a fragment *)
(* forwarded with target "app"; on a batch forwarded with target "self" it *)
(* invokes none.                                                           *)
(***************************************************************************)
C10_RootNotifiesUnlessForwardedSelf ==
    (last.op = "response" /\ last.failedAt = 0) =>
        NotifiedOf("R") =
            IF last.mgr = "R" \/ last.target = "app"
            THEN OncePerListener("R", RootTree)
            ELSE <<>>

\* A batch that f1 forwarded with target "self" changed the root's tree and
\* the root's listener was not invoked.
C10_Witness ==
    /\ last.op = "response"
    /\ last.mgr = "F1"
    /\ last.target = "self"
    /\ last.failedAt = 0
    /\ listeners["R"] # <<>>
    /\ RootTree # InitTree
    /\ NotifiedOf("R") = <<>>

(***************************************************************************)
(* Helpers of the properties of the applicator.                            *)
(***************************************************************************)
\* The batch of the applyActions call the last step made on the tree owner.
LastBatch == calls[Len(calls)].resp.actions

\* The left fold of single-action application: every action is applied as a
\* batch of its own to the tree the earlier ones left.
RECURSIVE FoldSingles(_, _)
FoldSingles(tree, actions) ==
    IF actions = <<>> THEN [ok |-> TRUE, tree |-> tree]
    ELSE LET p == produceTree(tree, << Head(actions) >>)
         IN  IF p.ok THEN FoldSingles(p.tree, Tail(actions)) ELSE [ok |-> FALSE, tree |-> tree]

(***************************************************************************)
(* C11: a batch given to applyActions yields the left fold of single-      *)
(* action application over its actions, each resolved in the tree the      *)
(* earlier ones left; if the fold meets an action that does not resolve,   *)
(* the tree stays.                                                         *)
(***************************************************************************)
C11_BatchIsLeftFold ==
    [][ (last'.op = "applyActions") =>
            LET f == FoldSingles(RootTree, LastBatch')
            IN  componentsTree'["R"] = Some(IF f.ok THEN f.tree ELSE RootTree)
      ]_vars

\* A remove at [0] followed by an update at [0]: the update met the node that
\* the remove had moved to the front.
C11_Witness ==
    /\ last.op = "applyActions"
    /\ LastBatch = << RemoveAction(<<0>>), UpdateAction(<<0>>, Partial) >>
    /\ RootTree = << WithProps(Leaf("B", "text"), Partial) >>

(***************************************************************************)
(* C12, as claimed: the batch [add E at [0], remove at [1]] applied to the *)
(* tree [A, B] yields [E, A].                                              *)
(***************************************************************************)
C12_AddRemoveYieldsEA ==
    [][ (/\ last'.op = "applyActions"
         /\ RootTree = TreeAB
         /\ LastBatch' = << AddAction(<<0>>, E), RemoveAction(<<1>>) >>) =>
            componentsTree'["R"] = Some(<< E, TreeAB[1] >>)
      ]_vars

(***************************************************************************)
(* C12, amended: the batch [add E at [0], remove at [1]] applied to the    *)
(* tree [A, B] yields [E, B]: the remove is resolved in [E, A, B] and      *)
(* takes A out.                                                            *)
(***************************************************************************)
C12_AddRemoveYieldsEB ==
    [][ (/\ last'.op = "applyActions"
         /\ RootTree = TreeAB
         /\ LastBatch' = << AddAction(<<0>>, E), RemoveAction(<<1>>) >>) =>
            componentsTree'["R"] = Some(<< E, TreeAB[2] >>)
      ]_vars

C12_Witness ==
    /\ last.op = "applyActions"
    /\ LastBatch = << AddAction(<<0>>, E), RemoveAction(<<1>>) >>
    /\ last.failedAt = 0
    /\ RootTree = << E, Leaf("B", "text") >>

\* An address without its final index, and the final index.
Front(addr) == SubSeq(addr, 1, Len(addr) - 1)
FinalIndex(addr) == addr[Len(addr)]

\* The list that a path of indices leads to: None if a step indexes past the
\* end of a list or goes into the absent children of a leaf.
RECURSIVE ListAt(_, _)
ListAt(list, path) ==
    IF path = <<>> THEN Some(list)
    ELSE LET i == Head(path) + 1 IN
         IF i > Len(list) THEN None
         ELSE IF list[i].leaf THEN None
         ELSE ListAt(list[i].children, Tail(path))

\* The node at an address, None if the address leads to none.
NodeAt(list, addr) ==
    LET l == ListAt(list, Front(addr)) IN
    IF addr = <<>> \/ l = None THEN None
    ELSE IF FinalIndex(addr) + 1 > Len(Val(l)) THEN None
    ELSE Some(Val(l)[FinalIndex(addr) + 1])

\* The tree with the list at a path replaced.
RECURSIVE PutList(_, _, _)
PutList(list, path, new) ==
    IF path = <<>> THEN new
    ELSE [list EXCEPT ![Head(path) + 1].children = PutList(@, Tail(path), new)]

\* The last step gave the tree owner a batch of the one action it returns.
SingleAction == last.op = "applyActions" /\ Len(calls) = 1 /\ Len(LastBatch) = 1
TheAction == LastBatch[1]

\* The addresses of the nodes of a tree.
Paths == UNION { [1..k -> 0..2] : k \in 1..4 }
AddressesOf(tree) == { q \in Paths : NodeAt(tree, q) # None }
IsPrefix(q, p) == Len(q) <= Len(p) /\ SubSeq(p, 1, Len(q)) = q

(***************************************************************************)
(* C13: an add whose address resolves (the path before the final index     *)
(* leads to a list and the final index is at most its length) inserts the  *)
(* element at the final index of that list: the list is one longer, the    *)
(* nodes before the index stay, the element is at the index, the nodes     *)
(* from the index on are one place to the right.                           *)
(***************************************************************************)
C13_AddInserts ==
    [][ (SingleAction' /\ TheAction'.type = "add"
            /\ ListAt(RootTree, Front(TheAction'.address)) # None
            /\ FinalIndex(TheAction'.address) <= Len(Val(ListAt(RootTree, Front(TheAction'.address))))) =>
            LET path == Front(TheAction'.address)
                i == FinalIndex(TheAction'.address) + 1
                old == Val(ListAt(RootTree, path))
                new == ListAt(Val(componentsTree'["R"]), path)
            IN  /\ ~last'.threw
                /\ new # None
                /\ Len(Val(new)) = Len(old) + 1
                /\ \A j \in 1..(i - 1) : Val(new)[j] = old[j]
                /\ Val(new)[i] = TheAction'.element
                /\ \A j \in i..Len(old) : Val(new)[j + 1] = old[j]
      ]_vars

\* E was added at [1,1], in front of the last child of container C.
C13_Witness ==
    /\ SingleAction
    /\ TheAction = AddAction(<<1, 1>>, E)
    /\ Len(RootTree) = 3
    /\ RootTree[2].key = "C"
    /\ Len(RootTree[2].children) = 3
    /\ RootTree[2].children[1].key = "X"
    /\ RootTree[2].children[2] = E
    /\ RootTree[2].children[3].key = "Y"

(***************************************************************************)
(* C14: a remove whose address leads to a node takes exactly that node     *)
(* out: its list is one shorter, the nodes before the index stay, the      *)
(* nodes after it are one place to the left, and the rest of the tree is   *)
(* as it was.                                                              *)
(***************************************************************************)
C14_RemoveDeletesOne ==
    [][ (SingleAction' /\ TheAction'.type = "remove"
            /\ NodeAt(RootTree, TheAction'.address) # None) =>
            LET path == Front(TheAction'.address)
                i == FinalIndex(TheAction'.address) + 1
                old == Val(ListAt(RootTree, path))
                new == ListAt(Val(componentsTree'["R"]), path)
            IN  /\ ~last'.threw
                /\ new # None
                /\ Len(Val(new)) = Len(old) - 1
                /\ \A j \in 1..(i - 1) : Val(new)[j] = old[j]
                /\ \A j \in (i + 1)..Len(old) : Val(new)[j - 1] = old[j]
                /\ componentsTree'["R"] = Some(PutList(RootTree, path, Val(new)))
      ]_vars

\* X, the first child of container C, was removed: Y took its place.
C14_Witness ==
    /\ SingleAction
    /\ TheAction = RemoveAction(<<1, 0>>)
    /\ Len(RootTree) = 3
    /\ RootTree[1].key = "A"
    /\ RootTree[2].key = "C"
    /\ Len(RootTree[2].children) = 1
    /\ RootTree[2].children[1].key = "Y"
    /\ RootTree[3].key = "B"

(***************************************************************************)
(* C15: an update whose address leads to a node gives the node the shallow *)
(* merge of its props and the partial map: the keys of both, every key of  *)
(* the partial map with the partial map's value (a nested value as a       *)
(* whole), every other key with its old value; key, name and children of   *)
(* the node stay.                                                          *)
(***************************************************************************)
C15_UpdateMergesShallow ==
    [][ (SingleAction' /\ TheAction'.type = "update"
            /\ NodeAt(RootTree, TheAction'.address) # None) =>
            LET old == Val(NodeAt(RootTree, TheAction'.address))
                new == NodeAt(Val(componentsTree'["R"]), TheAction'.address)
                part == TheAction'.props
            IN  /\ ~last'.threw
                /\ new # None
                /\ DOMAIN Val(new).props = (DOMAIN old.props) \cup (DOMAIN part)
                /\ \A k \in DOMAIN part : Val(new).props[k] = part[k]
                /\ \A k \in (DOMAIN old.props) \ (DOMAIN part) : Val(new).props[k] = old.props[k]
                /\ Val(new).key = old.key
                /\ Val(new).name = old.name
                /\ Val(new).leaf = old.leaf
                /\ Val(new).children = old.children
      ]_vars

\* Container C had label, style {color, size} and title: the update replaced
\* label and the whole style and kept title and the children.
C15_Witness ==
    /\ SingleAction
    /\ TheAction = UpdateAction(<<1>>, Partial)
    /\ ~last.threw
    /\ Len(RootTree) = 3
    /\ RootTree[2].key = "C"
    /\ RootTree[2].props = [label |-> Scalar("new"), style |-> [color |-> "blue"],
                            title |-> Scalar("t")]
    /\ Len(RootTree[2].children) = 2

(***************************************************************************)
(* C16: after an update of a node below the top level, every node of the   *)
(* old tree whose address is not on the path to the updated node (is no    *)
(* prefix of its address) is at the same address with the same value, its  *)
(* subtree included.                                                       *)
(***************************************************************************)
C16_UpdateLeavesOffPath ==
    [][ (SingleAction' /\ TheAction'.type = "update"
            /\ Len(TheAction'.address) > 1
            /\ NodeAt(RootTree, TheAction'.address) # None) =>
            /\ AddressesOf(Val(componentsTree'["R"])) = AddressesOf(RootTree)
            /\ \A q \in AddressesOf(RootTree) :
                  ~IsPrefix(q, TheAction'.address) =>
                      NodeAt(Val(componentsTree'["R"]), q) = NodeAt(RootTree, q)
      ]_vars

\* The text y at [2,0,1,0] was updated: the buttons and the text x beside the
\* path are the nodes of the initial tree, the nodes on the path are not.
C16_Witness ==
    /\ SingleAction
    /\ TheAction = UpdateAction(<<2, 0, 1, 0>>, Partial)
    /\ ~last.threw
    /\ RootTree[1] = InitTree[1]
    /\ RootTree[2] = InitTree[2]
    /\ RootTree[3].children[1].children[1] = InitTree[3].children[1].children[1]
    /\ RootTree[3] # InitTree[3]
    /\ RootTree[3].children[1].children[2].children[1].props = Partial

(***************************************************************************)
(* C17: an action whose address does not resolve (a step before the last   *)
(* indexes past the end of a list or goes into the children of a leaf, the *)
(* final index of a remove or update is >= the length of its list, the     *)
(* final index of an add is > the length) makes applyActions throw: the    *)
(* tree stays and no listener is invoked.  The manager's own resolver,     *)
(* getAtAddress, throws as well on an address that leads to no node.       *)
(***************************************************************************)
AddressResolves(tree, act) ==
    LET l == ListAt(tree, Front(act.address)) IN
    /\ act.address # <<>>
    /\ l # None
    /\ IF act.type = "add" THEN FinalIndex(act.address) <= Len(Val(l))
       ELSE FinalIndex(act.address) < Len(Val(l))

C17_UnresolvedAddressFails ==
    [][ (SingleAction' /\ ~AddressResolves(RootTree, TheAction')) =>
            /\ last'.threw
            /\ last'.failedAt = 1
            /\ componentsTree' = componentsTree
            /\ notified' = <<>>
            /\ NodeAt(RootTree, TheAction'.address) = None =>
                  getAtAddress("R", TheAction'.address, componentsTree).st = "throw"
      ]_vars

\* An add at [3] was given to the tree [A, B], two places past its end.
C17_Witness ==
    /\ SingleAction
    /\ TheAction = AddAction(<<3>>, E)
    /\ RootTree = TreeAB
    /\ last.target = "app"
    /\ last.threw
    /\ notified = <<>>

(***************************************************************************)
(* C18: in every step the tree of the owner is either the tree before the  *)
(* step or the tree with every action of the arrived batch applied, so     *)
(* that what getComponentsTree returns for a manager is its reading of one *)
(* of the two; a listener is handed the reading of the tree after the      *)
(* step.                                                                   *)
(***************************************************************************)
C18_ReadersSeeWholeTrees ==
    [][ LET res == actions_applyActions(RootTree, LastBatch')
            whole == [componentsTree EXCEPT !["R"] = Some(res.list)]
        IN  /\ \/ componentsTree' = componentsTree
               \/ last'.op = "response" /\ res.ok /\ componentsTree' = whole
            /\ \A m \in Managers :
                  \/ getComponentsTree(m, componentsTree') = getComponentsTree(m, componentsTree)
                  \/ last'.op = "response" /\ res.ok
                        /\ getComponentsTree(m, componentsTree') = getComponentsTree(m, whole)
            /\ \A i \in 1..Len(notified') :
                  getComponentsTree(notified'[i].mgr, componentsTree') = Returned(notified'[i].tree)
      ]_vars

\* A batch of two actions reached the root: its listener was handed the tree
\* with both applied.
C18_Witness ==
    /\ last.op = "response"
    /\ last.mgr = "R"
    /\ LastBatch = << AddAction(<<0>>, E), RemoveAction(<<1>>) >>
    /\ notified = << Notification("R", "l1", << E, InitTree[2], InitTree[3] >>) >>
    /\ componentsTree["R"] = Some(<< E, InitTree[2], InitTree[3] >>)

(***************************************************************************)
(* C19: calling the function that a subscribe(listener) call returned      *)
(* while a registration of the listener exists removes one registration    *)
(* and leaves every other one, also another registration of the same       *)
(* listener.                                                               *)
(***************************************************************************)
C19_UnsubscribeRemovesOne ==
    [][ (last'.op = "unsubscribe") =>
            /\ Len(listeners'[last'.mgr]) = Len(listeners[last'.mgr]) - 1
            /\ \A m \in Managers \ {last'.mgr} : listeners'[m] = listeners[m]
      ]_vars

(***************************************************************************)
(* C20: a manager that runs notifyListeners invokes each of its registered *)
(* listeners once, in the order of registration, with the tree that its    *)
(* getComponentsTree returns after the batch.  The root runs it after a    *)
(* batch of its own event or one forwarded with target "app", a fragment   *)
(* after a batch of its own event with target "self".                      *)
(***************************************************************************)
RunsNotifyListeners(m) ==
    /\ last.op = "response"
    /\ last.failedAt = 0
    /\ IF IsRoot(m) THEN last.mgr = m \/ last.target = "app"
       ELSE last.mgr = m /\ last.target = "self"

C20_PassInvokesAllInOrder ==
    \A m \in Managers :
        RunsNotifyListeners(m) =>
            NotifiedOf(m) = OncePerListener(m, getComponentsTree(m, componentsTree).val)

(***************************************************************************)
(* C23: getLastURL of every manager is the lastURL field of the root.  The *)
(* field is the browser location when the managers are constructed, and it *)
(* changes only in the root's handleEvent of a navigate event, to the      *)
(* event's href, with the origin in front unless it starts with "http".    *)
(***************************************************************************)
C23_LastURLIsTheRoots ==
    [][ /\ last.op = "init" => lastURL["R"] = location
        /\ \A m \in Managers : getLastURL(m, lastURL') = lastURL'["R"]
        /\ (last'.op = "handleEvent" /\ last'.mgr = "R" /\ last'.ev.type = "navigate") =>
              lastURL'["R"] = IF StartsWithHttp(last'.ev.href) THEN last'.ev.href
                              ELSE Origin \o last'.ev.href
        /\ ~(last'.op = "handleEvent" /\ last'.mgr = "R" /\ last'.ev.type = "navigate") =>
              lastURL'["R"] = lastURL["R"]
      ]_vars

\* The root handled a navigation to /a: the nested fragment answers with it.
C23_Witness ==
    /\ last.op = "handleEvent"
    /\ last.mgr = "R"
    /\ last.ev = NavigateEvent(<<"/a">>, FALSE)
    /\ getLastURL("F2", lastURL) = <<"http", "://o", "/a">>
    /\ lastURL["F2"] = InitialLocation

(***************************************************************************)
(* C30: after every sequence of batches the address of a fragment manager, *)
(* read from the root, leads to the node of that fragment (the node whose  *)
(* key is the fragment's id).                                              *)
(***************************************************************************)
C30_AddressStaysOnFragment ==
    \A m \in Managers :
        IsFragment(m) =>
            /\ NodeAt(RootTree, AbsoluteAddress(m)) # None
            /\ Val(NodeAt(RootTree, AbsoluteAddress(m))).key = Val(fragmentId(m))

(***************************************************************************)
(* Helpers of the properties of the page.                                  *)
(***************************************************************************)
IsIn(reg, m) == \E i \in 1..Len(reg) : reg[i] = m
NoDuplicates(reg) == \A i, j \in 1..Len(reg) : reg[i] = reg[j] => i = j

(***************************************************************************)
(* C21: whatever initialize and terminate calls were made, no manager is   *)
(* twice among the listeners on document or on window; after initialize    *)
(* (also App's, on mount) the manager is in both, after terminate (also    *)
(* App's, on unmount) in neither, and the other managers' registrations    *)
(* stay; terminate of a manager that is not registered changes nothing; an *)
(* event on document reaches the handleEvent of the registered managers    *)
(* only, a popstate the handlePopState of the registered managers only.    *)
(***************************************************************************)
C21_ListenersAreScoped ==
    [][ /\ NoDuplicates(docListeners') /\ NoDuplicates(popListeners')
        /\ last'.op \in {"initialize", "mount"} =>
              /\ IsIn(docListeners', last'.mgr) /\ IsIn(popListeners', last'.mgr)
              /\ \A m \in Managers \ {last'.mgr} :
                    /\ IsIn(docListeners', m) = IsIn(docListeners, m)
                    /\ IsIn(popListeners', m) = IsIn(popListeners, m)
        /\ last'.op \in {"terminate", "unmount"} =>
              /\ ~IsIn(docListeners', last'.mgr) /\ ~IsIn(popListeners', last'.mgr)
              /\ \A m \in Managers \ {last'.mgr} :
                    /\ IsIn(docListeners', m) = IsIn(docListeners, m)
                    /\ IsIn(popListeners', m) = IsIn(popListeners, m)
              /\ (~IsIn(docListeners, last'.mgr) /\ ~IsIn(popListeners, last'.mgr)) =>
                    /\ docListeners' = docListeners
                    /\ popListeners' = popListeners
              /\ UNCHANGED <<componentsTree, lastURL, listeners, inflight, location>>
        /\ last'.op = "mount" => last'.mgr = "R" /\ react.app = "unmounted"
        /\ last'.op = "unmount" => last'.mgr = "R" /\ react.app = "mounted"
        /\ last'.op = "dispatch" =>
              \A k \in 1..Len(last'.dispatched) : last'.dispatched[k].handledBy = docListeners
        /\ last'.op = "popstate" =>
              /\ Len(last'.dispatched) = Len(popListeners)
              /\ \A k \in 1..Len(last'.dispatched) :
                    /\ last'.dispatched[k].src = popListeners[k]
                    /\ last'.dispatched[k].handledBy = docListeners
      ]_vars

\* App mounted, the root was terminated, and the user went back: no handler ran.
C21_Witness ==
    /\ last.op = "popstate"
    /\ react.app = "mounted"
    /\ ops = 3
    /\ docListeners = <<>>
    /\ popListeners = <<>>
    /\ last.dispatched = <<>>
    /\ inflight = <<>>

(***************************************************************************)
(* C22: on a popstate the handlePopState of an initialized root dispatches *)
(* a navigate event with the browser's current URL as href and the URL the *)
(* root had recorded before the popstate as lastURL; the root's            *)
(* handleEvent sends one request for it and records the href.              *)
(***************************************************************************)
C22_PopStateNavigates ==
    [][ (last'.op = "popstate") =>
            \A k \in 1..Len(last'.dispatched) :
                LET d == last'.dispatched[k] IN
                d.src = "R" =>
                    /\ d.ev.type = "navigate"
                    /\ d.ev.href = location'
                    /\ d.ev.lastURL = lastURL["R"]
                    /\ d.sentBy = << "R" >>
                    /\ lastURL'["R"] = location'
                    /\ \E i \in 1..Len(inflight') : inflight'[i] = Request("R", d.ev)
      ]_vars

(***************************************************************************)
(* C24: the history is updated in the step in which the request of a       *)
(* navigate event succeeds, once: replaceState to the href if the event    *)
(* asked for replace, else pushState; in no other step of the client, not  *)
(* when the request is sent, not when it fails, not for another event.     *)
(***************************************************************************)
C24_HistoryAfterSuccess ==
    [][ /\ (last'.op = "response" /\ last'.ev.type = "navigate") =>
              /\ last'.history = IF last'.ev.replace THEN "replace" ELSE "push"
              /\ location' = IF StartsWithHttp(last'.ev.href) THEN last'.ev.href
                             ELSE Origin \o last'.ev.href
        /\ ~(last'.op = "response" /\ last'.ev.type = "navigate") =>
              /\ last'.history = "none"
              /\ last'.op # "popstate" => location' = location
      ]_vars

\* The request of a navigate event with replace succeeded.
C24_Witness ==
    /\ last.op = "response"
    /\ last.ev = NavigateEvent(Origin \o <<"/b">>, TRUE)
    /\ last.history = "replace"
    /\ location = <<"http", "://o", "/b">>

(***************************************************************************)
(* C25: for an event dispatched on document, every manager that sends a    *)
(* request stops the propagation, and at most one manager sends a request. *)
(***************************************************************************)
C25_OneRequestPerEvent ==
    [][ (last'.op \in {"dispatch", "popstate"}) =>
            \A k \in 1..Len(last'.dispatched) :
                /\ last'.dispatched[k].stoppedBy = last'.dispatched[k].sentBy
                /\ Len(last'.dispatched[k].sentBy) <= 1
      ]_vars

(***************************************************************************)
(* C26: terminate leaves the requests in flight; the response to a request *)
(* of a manager that is no longer registered is applied to the tree, and   *)
(* for a request of the root each subscribed listener is invoked once with *)
(* the new tree, so that none is invoked only if none is subscribed.       *)
(***************************************************************************)
C26_LateResponseIsApplied ==
    [][ /\ last'.op \in {"terminate", "unmount"} => inflight' = inflight
        /\ (last'.op = "response" /\ ~IsIn(docListeners, last'.mgr)) =>
              LET res == actions_applyActions(RootTree, LastBatch') IN
              /\ res.ok => componentsTree'["R"] = Some(res.list)
              /\ (res.ok /\ last'.mgr = "R") =>
                    /\ notified' = OncePerListener("R", res.list)
                    /\ (notified' = <<>>) = (listeners["R"] = <<>>)
      ]_vars

\* App unmounted while a click was in flight; the response changed the tree
\* and the root's listener was called.
C26_Witness ==
    /\ last.op = "response"
    /\ last.mgr = "R"
    /\ react.app = "unmounted"
    /\ docListeners = <<>>
    /\ ops = 3
    /\ RootTree[1].props = Clicked
    /\ notified = << Notification("R", "l1", RootTree) >>

\* The rendered element at a path of indices in the output of a render, None
\* if nothing is rendered there.
RECURSIVE ElementAt(_, _)
ElementAt(out, q) ==
    LET i == Head(q) + 1 IN
    IF i > Len(out) THEN None
    ELSE IF out[i] = None THEN None
    ELSE IF Len(q) = 1 THEN out[i]
    ELSE ElementAt(Val(out[i]).children, Tail(q))

\* The node at q and all nodes above it have renderers in the registry.
RegisteredDownTo(q) ==
    \A k \in 1..Len(q) : Val(NodeAt(RootTree, SubSeq(q, 1, k))).name \in react.store

(***************************************************************************)
(* C27: a render of the tree does not fail, and it renders the element of  *)
(* a node exactly when the node and every node above it have a renderer    *)
(* in the registry: nothing is rendered for a node without a renderer nor  *)
(* for any node below it, and every other node is rendered with its key,   *)
(* name and props.                                                         *)
(***************************************************************************)
C27_MissingRendererSkipsSubtree ==
    last.op = "render" =>
        /\ react.rendered # None
        /\ Len(Val(react.rendered)) = Len(RootTree)
        /\ \A q \in AddressesOf(RootTree) :
              LET n == Val(NodeAt(RootTree, q))
                  el == ElementAt(Val(react.rendered), q)
              IN  IF RegisteredDownTo(q)
                  THEN /\ el # None
                       /\ Val(el).key = n.key
                       /\ Val(el).name = n.name
                       /\ Val(el).props = n.props
                  ELSE el = None

\* A render where a node has no renderer, a node below it has one, and a
\* sibling of the node is rendered.
C27_Witness ==
    /\ last.op = "render"
    /\ react.rendered # None
    /\ \E q \in AddressesOf(RootTree), c \in 0..2, s \in 0..2 :
          /\ Val(NodeAt(RootTree, q)).name \notin react.store
          /\ NodeAt(RootTree, q \o <<c>>) # None
          /\ Val(NodeAt(RootTree, q \o <<c>>)).name \in react.store
          /\ s # FinalIndex(q)
          /\ NodeAt(RootTree, Front(q) \o <<s>>) # None
          /\ ElementAt(Val(react.rendered), Front(q) \o <<s>>) # None
          /\ ElementAt(Val(react.rendered), q) = None

\* The children or the fragment id of this render of Fragment differ from
\* those of the render before, or there was no render before.
ManagerPropsChanged ==
    \/ react.props = None
    \/ Val(react.props).children # Val(react'.props).children
    \/ Val(react.props).fragmentId # Val(react'.props).fragmentId

HookCall == last.dispatched[1]

\* handleEvent of the manager ran once in the last step: what one run does
\* to the requests and to the URL of the last request.
HandledOnceBy(m, detail) ==
    LET h == handleEvent(m, detail, lastURL, inflight) IN
    /\ inflight' = h.inflight
    /\ lastURL' = h.lastURL

(***************************************************************************)
(* C29: a call of a dispatcher of useDispatcherWith(id, type) with data    *)
(* makes handleEvent of the context's manager run once with the detail     *)
(* that has the fields id, type and those of data, the values of data      *)
(* taking precedence; a call of a dispatcher of                            *)
(* useDispatcherWithAttr(id, type, attr) with a value does so with the     *)
(* detail of id, type and attr, attr holding the value.                    *)
(***************************************************************************)
C29_DispatchersCallHandleEventOnce ==
    [][ last'.op = "dispatcher" =>
          LET c == HookCall'
              d == last'.ev
          IN  /\ Len(last'.dispatched) = 1
              /\ HandledOnceBy(last'.mgr, d)
              /\ IF c.src = "useDispatcherWith"
                 THEN /\ DOMAIN d = {"id", "type"} \cup DOMAIN c.data
                      /\ \A k \in DOMAIN c.data : d[k] = c.data[k]
                      /\ "id" \notin DOMAIN c.data => d["id"] = c.id
                      /\ "type" \notin DOMAIN c.data => d["type"] = c.type
                 ELSE /\ DOMAIN d = {"id", "type", c.attr}
                      /\ d[c.attr] = c.value
                      /\ c.attr # "id" => d["id"] = c.id
                      /\ c.attr # "type" => d["type"] = c.type ]_vars

\* A dispatcher was called with data that has an id of its own, and the
\* request of the event is on its way.
C29_Witness ==
    /\ last.op = "dispatcher"
    /\ HookCall.src = "useDispatcherWith"
    /\ "id" \in DOMAIN HookCall.data
    /\ last.ev["id"] = "other"
    /\ Len(inflight) > 0
    /\ inflight[Len(inflight)] = Request(last.mgr, last.ev)

\* Every registration of m had its listener invoked in the last step.
AllNotified(m) ==
    \A i \in 1..Len(listeners[m]) :
        \E j \in 1..Len(notified) :
            notified[j].mgr = m /\ notified[j].listener = listeners[m][i]

(***************************************************************************)
(* C31: when the batch of a response is applied and the value that         *)
(* getComponentsTree of a manager returns is another than before, every    *)
(* listener registered on that manager is invoked in the same step, that   *)
(* is before any later event is handled.  Stated for the managers whose    *)
(* tree can be read before and after.                                      *)
(***************************************************************************)
C31_ChangeNotifiesSubscribers ==
    [][ (last'.op = "response" /\ ~last'.threw) =>
          \A m \in Managers :
              (/\ getComponentsTree(m, componentsTree).st = "ok"
               /\ getComponentsTree(m, componentsTree').st = "ok"
               /\ getComponentsTree(m, componentsTree').val # getComponentsTree(m, componentsTree).val)
                  => AllNotified(m)' ]_vars

\* The subtrees of two fragments are disjoint: neither is inside the other.
Disjoint(m1, m2) ==
    /\ ~IsPrefix(AbsoluteAddress(m1), AbsoluteAddress(m2))
    /\ ~IsPrefix(AbsoluteAddress(m2), AbsoluteAddress(m1))

UpdateOnlySelf(resp) ==
    /\ resp.target = "self"
    /\ \A i \in 1..Len(resp.actions) : resp.actions[i].type = "update"

\* The response that arrived in the last step, as the receiver got it.
ArrivedResponse == calls[1].resp

\* The root's tree after manager m received resp in the trees ct.
RootAfter(m, resp, ct) == applyActions(m, resp, TRUE, ct, listeners).ct

(***************************************************************************)
(* C32: when a fragment receives a response of updates with target "self"  *)
(* while the request of another fragment with a disjoint subtree is in     *)
(* flight, then for every response of updates with target "self" to that   *)
(* other request the root's tree after both is the same as if the two      *)
(* responses had arrived in the other order.                               *)
(***************************************************************************)
C32_DisjointUpdatesCommute ==
    [][ (/\ last'.op = "response"
         /\ fragmentId(last'.mgr) # None
         /\ UpdateOnlySelf(ArrivedResponse')) =>
          \A j \in 1..Len(inflight') :
              LET m1 == last'.mgr
                  m2 == inflight'[j].mgr
              IN  (fragmentId(m2) # None /\ m2 # m1 /\ Disjoint(m1, m2)) =>
                    \A r2 \in { r \in SiblingResponses : UpdateOnlySelf(r) } :
                        RootAfter(m2, r2, componentsTree')["R"]
                            = RootAfter(m1, ArrivedResponse',
                                        RootAfter(m2, r2, componentsTree))["R"] ]_vars

\* f1 got its update of its first node while the request of f3 is in flight.
C32_Witness ==
    /\ last.op = "response"
    /\ last.mgr = "F1"
    /\ ~last.threw
    /\ UpdateOnlySelf(ArrivedResponse)
    /\ \E j \in 1..Len(inflight) : inflight[j].mgr = "F3"
    /\ "label" \in DOMAIN Val(NodeAt(RootTree, <<2, 0, 0>>)).props
    /\ Val(NodeAt(RootTree, <<1, 0>>)).props = NoProps

(***************************************************************************)
(* C33: when the batch of a received response does not resolve in the      *)
(* tree, the failure reaches console.error, the handler that gets the      *)
(* failures of the network; the tree is the one from before.               *)
(***************************************************************************)
C33_ApplyFailureIsReported ==
    [][ (last'.op = "response" /\ last'.failedAt > 0) =>
          /\ last'.logged
          /\ componentsTree' = componentsTree ]_vars

(***************************************************************************)
(* C34: one popstate of the browser, with the root initialized, puts       *)
(* exactly one request on the wire, whichever other managers are           *)
(* initialized.                                                            *)
(***************************************************************************)
C34_OnePopStateOneRequest ==
    [][ (/\ last'.op = "popstate"
         /\ IsIn(popListeners, "R")
         /\ IsIn(docListeners, "R")) =>
          /\ Len(inflight') = Len(inflight) + 1
          /\ inflight'[Len(inflight')].ev.type = "navigate" ]_vars

(***************************************************************************)
(* C35: the lastURL of every navigate event that a handlePopState          *)
(* dispatched is what getLastURL of the root returned when the event was   *)
(* built.                                                                  *)
(***************************************************************************)
C35_PopStateCarriesRootLastURL ==
    last.op = "popstate" =>
        \A i \in 1..Len(last.dispatched) :
            last.dispatched[i].ev.lastURL = getLastURL("R", last.dispatched[i].before)

(***************************************************************************)
(* C36: while no navigate request is in flight, getLastURL of the root is  *)
(* the URL of the browser's location; so after a navigate request failed   *)
(* it is again what it was before the navigate.                            *)
(***************************************************************************)
C36_LastURLIsLocation ==
    (\A i \in 1..Len(inflight) : inflight[i].ev.type # "navigate")
        => getLastURL("R", lastURL) = location

(***************************************************************************)
(* C37: a manager that got a response and has a fragmentId also has a      *)
(* parentManager and an address and no tree of its own, and the response   *)
(* went on to a manager that owns a tree and applies it there.             *)
(***************************************************************************)
C37_ManagersAreRootOrFragment ==
    last.op = "response" =>
        /\ fragmentId(last.mgr) # None =>
              /\ parentManager(last.mgr) # None
              /\ address(last.mgr) # None
              /\ componentsTree[last.mgr] = None
        /\ \E i \in 1..Len(calls) :
              /\ fragmentId(calls[i].mgr) = None
              /\ componentsTree[calls[i].mgr] # None

====
